---- MODULE Spec2Model ----
(***************************************************************************)
(* Model of the Tidbyt Bitcoin tracker (src/main.py): the price cache of   *)
(* TidbytBitcoinTracker, the three HTTP steps (price, render, push) and    *)
(* the update loop of run_continuous_updates, started by main.             *)
(*                                                                         *)
(* Python values are records [t, v]: t is the type tag, v the payload.     *)
(* Numbers are kept in tenths (42999.9 is 429999), times in seconds.       *)
(***************************************************************************)
EXTENDS Integers, Sequences, FiniteSets, TLC

VARIABLES
    pc,              \* position of the single thread
    config,          \* what main found in tidbyt_config.json ("unread" before / without main)
    device_id,       \* self.device_id
    api_key,         \* self.api_key
    last_price,      \* self.last_price
    last_update,     \* self.last_update
    update_interval, \* argument of run_continuous_updates
    clock,           \* datetime.now() of the environment, in seconds
    now,             \* local `now` of get_bitcoin_price
    price,           \* local `price` of create_webp
    webp_data,       \* local `webp_data` of push_to_tidbyt
    success,         \* local `success` of run_continuous_updates
    sent,            \* URLs requested since the iteration began, in order
    render_req,      \* body of the render request of this iteration
    push_req,        \* push request of this iteration
    gbp,             \* the get_bitcoin_price call of this iteration: inputs, branch, result
    price_resp,      \* what the price API answered in this iteration
    render_resp,     \* what the render endpoint answered in this iteration
    push_resp,       \* what the push endpoint answered in this iteration
    escaped,         \* exception that reached the handlers of run_continuous_updates
    interrupted      \* a KeyboardInterrupt has been delivered

vars == <<pc, config, device_id, api_key, last_price, last_update,
          update_interval, clock, now, price, webp_data, success, sent,
          render_req, push_req, gbp, price_resp, render_resp, push_resp,
          escaped, interrupted>>

-----------------------------------------------------------------------------
(* Bounds of the model *)

\* the clock is explored up to MaxTicks * Tick seconds
MaxTicks == 11

\* granularity of the time a blocking call may take
Tick == 60

-----------------------------------------------------------------------------
(* Constants of the program *)

\* cache_ttl as timedelta(hours=4) would be
cache_ttl_in_hours == 4 * 3600

cache_ttl == 240

DefaultUpdateInterval == 300

INSTALLATION_ID == "bitcoin-tracker"

COINDESK_PRICE_URL == "https://api.coindesk.com/v1/bpi/currentprice.json"

RENDER_URL == "https://pixlet.tidbyt.com/render"

\* TIDBYT_API_URL.format(d)
TIDBYT_API_URL(d) == "https://api.tidbyt.com/v0/devices/" \o d \o "/push"

-----------------------------------------------------------------------------
(* Python values *)

None == [t |-> "None", v |-> 0]

Float(tenths) == [t |-> "float", v |-> tenths]

PyInt(n) == [t |-> "int", v |-> n]

Str(s) == [t |-> "str", v |-> s]

DateTime(s) == [t |-> "datetime", v |-> s]

Bytes(b) == [t |-> "bytes", v |-> b]

Bool(b) == [t |-> "bool", v |-> b]

\* exception classes that occur; KeyboardInterrupt derives from BaseException only
ExceptionSubclasses ==
    {"ConnectionError", "JSONDecodeError", "KeyError", "TypeError",
     "ValueError", "OverflowError"}

BaseExceptionSubclasses == ExceptionSubclasses \cup {"KeyboardInterrupt"}

NoExc == "none"

NoEvent == [k |-> "none", exc |-> NoExc, status |-> 0, body |-> None]

Raise(exc) == [k |-> "raise", exc |-> exc, status |-> 0, body |-> None]

Http(status, body) == [k |-> "http", exc |-> NoExc, status |-> status, body |-> body]

\* body of a price response: j says whether response.json() parses and
\* whether data["bpi"]["USD"]["rate_float"] exists; rate is its value
JsonBody(j, rate) == [t |-> "json", v |-> [j |-> j, rate |-> rate]]

-----------------------------------------------------------------------------
(* What the environment may answer *)

\* values the price feed may carry at bpi.USD.rate_float, as json.loads
\* builds them: floats (in tenths), 1e999 (inf), an integer, a string, null
RateValues ==
    {Float(429999), Float(1000), Float(-15), [t |-> "float_inf", v |-> 0],
     PyInt(67890), Str("67890"), Str("67890.12"), None}

PriceEvents ==
    {Raise("ConnectionError"), Http(503, JsonBody("invalid", None)),
     Http(200, JsonBody("invalid", None)), Http(200, JsonBody("nokey", None))}
    \cup {Http(200, JsonBody("rate", r)) : r \in RateValues}

ImageBodies == {<< >>, <<82, 73>>, <<82, 73, 70, 70>>}

RenderEvents ==
    {Raise("ConnectionError"), Http(500, Bytes(<<60>>))}
    \cup {Http(200, Bytes(b)) : b \in ImageBodies}

PushEvents == {Raise("ConnectionError"), Http(200, None), Http(403, None)}

KeyboardInterrupt == Raise("KeyboardInterrupt")

\* tidbyt_config.json as main may find it
ConfigFile(file, has_device_id, has_api_key) ==
    [file |-> file, has_device_id |-> has_device_id, has_api_key |-> has_api_key,
     device_id |-> "dev-main", api_key |-> "key-main"]

NoConfig == [file |-> "unread", has_device_id |-> FALSE, has_api_key |-> FALSE,
             device_id |-> "", api_key |-> ""]

ConfigFiles ==
    {ConfigFile("missing", FALSE, FALSE), ConfigFile("invalid_json", FALSE, FALSE),
     ConfigFile("json", FALSE, TRUE), ConfigFile("json", TRUE, FALSE),
     ConfigFile("json", FALSE, FALSE), ConfigFile("json", TRUE, TRUE)}

\* update_interval of run_continuous_updates: the default, and a caller's
\* shorter one
UpdateIntervals == {DefaultUpdateInterval, cache_ttl - Tick}

MaxClock == MaxTicks * Tick

\* time a blocking call may take beyond its minimum
Delays == {0, Tick}

-----------------------------------------------------------------------------
(* Pure steps of the code *)

\* ExceptException as a bare `except:` would be: it takes BaseException too
ExceptBaseException(exc) == exc \in BaseExceptionSubclasses

\* an `except Exception` clause takes exc
ExceptException(exc) == exc \in ExceptionSubclasses

\* CacheValid with the comparison turned round: a fresh entry counts as expired
CacheValidReversed(lp, lu, n) ==
    /\ lp.t # "None"
    /\ lu.t # "None"
    /\ n - lu.v > cache_ttl

\* CacheValid with <= for <: an entry of exactly cache_ttl still counts as valid
CacheValidInclusive(lp, lu, n) ==
    /\ lp.t # "None"
    /\ lu.t # "None"
    /\ n - lu.v <= cache_ttl

\* get_bitcoin_price: the cached price is still valid at time n
CacheValid(lp, lu, n) ==
    /\ lp.t # "None"
    /\ lu.t # "None"
    /\ n - lu.v < cache_ttl

\* what f"{price:,.2f}" raises for price p
FormatRaises(p) ==
    CASE p.t = "None" -> "TypeError"
      [] p.t = "str" -> "ValueError"
      [] OTHER -> NoExc

\* what int(p) raises
IntRaises(p) ==
    CASE p.t = "None" -> "TypeError"
      [] p.t = "float_inf" -> "OverflowError"
      [] p.t = "str" /\ p.v # "67890" -> "ValueError"
      [] OTHER -> NoExc

\* IntOf as round(p) would be: a float goes to the nearest integer
IntOfRounded(p) ==
    CASE p.t = "float" ->
           IF p.v >= 0 THEN (p.v + 5) \div 10 ELSE -((-p.v + 5) \div 10)
      [] p.t = "int" -> p.v
      [] p.t = "str" -> 67890
      [] OTHER -> 0

\* int(p) where it raises nothing: a float is truncated toward zero
IntOf(p) ==
    CASE p.t = "float" -> IF p.v >= 0 THEN p.v \div 10 ELSE -((-p.v) \div 10)
      [] p.t = "int" -> p.v
      [] p.t = "str" -> 67890
      [] OTHER -> 0

\* PriceIsNone with the check left out
PriceIsNoneUnchecked(p) == FALSE

\* create_webp: `price is None`
PriceIsNone(p) == p.t = "None"

\* the Starlark script of create_webp, with the text of render.Text
RenderCode(p) ==
    [load |-> "render.star", icon |-> "BTC_ICON", main_align |-> "space_evenly",
     cross_align |-> "center", text |-> <<"$", IntOf(p)>>]

\* RenderOk with the status check left out
RenderOkAnyStatus(ev) == TRUE

\* create_webp: the render response is taken as the image
RenderOk(ev) == ev.status = 200

\* NotWebpData as `webp_data is None` would be
WebpDataIsNone(w) == w.t = "None"

\* push_to_tidbyt: `not webp_data`
NotWebpData(w) == w.t = "None" \/ (w.t = "bytes" /\ Len(w.v) = 0)

\* the '=' of base64, after the 64 digits 0..63
B64Pad == 64

\* base64 of one group of one to three bytes
B64Group(g) ==
    LET b(i) == IF i <= Len(g) THEN g[i] ELSE 0
        n == b(1) * 65536 + b(2) * 256 + b(3)
        c1 == n \div 262144
        c2 == (n \div 4096) % 64
        c3 == (n \div 64) % 64
        c4 == n % 64
    IN  CASE Len(g) = 1 -> <<c1, c2, B64Pad, B64Pad>>
          [] Len(g) = 2 -> <<c1, c2, c3, B64Pad>>
          [] OTHER -> <<c1, c2, c3, c4>>

RECURSIVE b64encode(_)
\* base64.b64encode(bs).decode('utf-8'), as a sequence of base64 digits
b64encode(bs) ==
    IF Len(bs) = 0 THEN << >>
    ELSE IF Len(bs) <= 3 THEN B64Group(bs)
    ELSE B64Group(SubSeq(bs, 1, 3)) \o b64encode(SubSeq(bs, 4, Len(bs)))

\* PushRequest with the device id used as the bearer token
PushRequestWrongBearer(w, d, k) ==
    [url |-> TIDBYT_API_URL(d),
     headers |-> [Authorization |-> <<"Bearer", d>>, ContentType |-> "application/json"],
     json |-> [image |-> b64encode(w.v), installation_id |-> INSTALLATION_ID,
               background |-> TRUE]]

\* the request of push_to_tidbyt for image w
PushRequest(w, d, k) ==
    [url |-> TIDBYT_API_URL(d),
     headers |-> [Authorization |-> <<"Bearer", k>>, ContentType |-> "application/json"],
     json |-> [image |-> b64encode(w.v), installation_id |-> INSTALLATION_ID,
               background |-> TRUE]]

NoRequest == [url |-> ""]

\* push_to_tidbyt: the push response means success
PushOk(ev) == ev.status = 200

\* LoadConfigRaises as config.get('api_key') would make it: a missing api_key
\* raises nothing
LoadConfigRaisesNoApiKeyCheck(cfg) ==
    CASE cfg.file = "missing" -> "FileNotFoundError"
      [] cfg.file = "invalid_json" -> "JSONDecodeError"
      [] ~cfg.has_device_id -> "KeyError"
      [] OTHER -> NoExc

\* main: what reading tidbyt_config.json raises
LoadConfigRaises(cfg) ==
    CASE cfg.file = "missing" -> "FileNotFoundError"
      [] cfg.file = "invalid_json" -> "JSONDecodeError"
      [] ~cfg.has_device_id \/ ~cfg.has_api_key -> "KeyError"
      [] OTHER -> NoExc

\* main: its except clauses take exc
MainExcept(exc) == exc \in {"FileNotFoundError", "KeyError"}

\* get_bitcoin_price, the body of its try once requests.get has answered ev:
\* what it raises or returns, and the cache it leaves
TryFetch(ev, lp, lu, n) ==
    LET same(exc, ret) ==
            [raised |-> exc, ret |-> ret, last_price |-> lp, last_update |-> lu]
        rate == ev.body.v.rate
    IN  CASE ev.k = "raise" -> same(ev.exc, None)
          [] ev.status # 200 -> same(NoExc, None)
          [] ev.body.v.j = "invalid" -> same("JSONDecodeError", None)
          [] ev.body.v.j = "nokey" -> same("KeyError", None)
          [] OTHER ->
               [raised |-> FormatRaises(rate),
                ret |-> IF FormatRaises(rate) = NoExc THEN rate ELSE None,
                last_price |-> rate,
                last_update |-> DateTime(n)]

\* FetchPrice falling back on the cached price, however old, when the fetch
\* gives none
FetchPriceFallsBack(ev, lp, lu, n) ==
    LET r == TryFetch(ev, lp, lu, n)
    IN  IF r.raised # NoExc /\ ExceptException(r.raised)
        THEN [r EXCEPT !.raised = NoExc, !.ret = lp]
        ELSE IF r.raised = NoExc /\ r.ret.t = "None"
        THEN [r EXCEPT !.ret = lp]
        ELSE r

\* get_bitcoin_price from requests.get on, with its except clause
FetchPrice(ev, lp, lu, n) ==
    LET r == TryFetch(ev, lp, lu, n)
    IN  IF r.raised # NoExc /\ ExceptException(r.raised)
        THEN [r EXCEPT !.raised = NoExc, !.ret = None]
        ELSE r

\* create_webp from requests.post on, with its except clause
RenderImage(ev) ==
    CASE ev.k = "raise" /\ ExceptException(ev.exc) -> [raised |-> NoExc, ret |-> None]
      [] ev.k = "raise" -> [raised |-> ev.exc, ret |-> None]
      [] ~RenderOk(ev) -> [raised |-> NoExc, ret |-> None]
      [] OTHER -> [raised |-> NoExc, ret |-> ev.body]

\* push_to_tidbyt from requests.post on, with its except clause
PushImage(ev) ==
    CASE ev.k = "raise" /\ ExceptException(ev.exc) -> [raised |-> NoExc, ret |-> FALSE]
      [] ev.k = "raise" -> [raised |-> ev.exc, ret |-> FALSE]
      [] OTHER -> [raised |-> NoExc, ret |-> PushOk(ev)]

-----------------------------------------------------------------------------
(* The history of one get_bitcoin_price call *)

NoCall ==
    [called |-> FALSE, now |-> 0, pre_price |-> None, pre_update |-> None,
     hit |-> FALSE, returned |-> FALSE, ret |-> None]

CallOf(n, lp, lu, hit) ==
    [called |-> TRUE, now |-> n, pre_price |-> lp, pre_update |-> lu,
     hit |-> hit, returned |-> hit,
     ret |-> IF hit THEN lp ELSE None]

-----------------------------------------------------------------------------
(* Initial state: the process has started, main has not run yet *)

Init ==
    /\ pc = "start"
    /\ config = NoConfig
    /\ device_id = None
    /\ api_key = None
    /\ last_price = None
    /\ last_update = None
    /\ update_interval = 0
    /\ clock = 0
    /\ now = 0
    /\ price = None
    /\ webp_data = None
    /\ success = None
    /\ sent = << >>
    /\ render_req = None
    /\ push_req = NoRequest
    /\ gbp = NoCall
    /\ price_resp = NoEvent
    /\ render_resp = NoEvent
    /\ push_resp = NoEvent
    /\ escaped = NoExc
    /\ interrupted = FALSE

-----------------------------------------------------------------------------
(* run_continuous_updates: how an iteration ends *)

\* LoopAfterPush with the sleep only after a success: a failed update is
\* retried at once
LoopAfterPushRetriesAtOnce(ok) ==
    /\ success' = Bool(ok)
    /\ pc' = IF ok THEN "sleeping" ELSE "loop_top"
    /\ UNCHANGED escaped

\* push_to_tidbyt returned ok: the loop reports and goes to time.sleep
LoopAfterPush(ok) ==
    /\ success' = Bool(ok)
    /\ pc' = "sleeping"
    /\ UNCHANGED escaped

\* exc left push_to_tidbyt or time.sleep: the except clauses around the loop
LoopExcept(exc) ==
    /\ pc' = IF exc = "KeyboardInterrupt" THEN "stopped"
             ELSE IF ExceptException(exc) THEN "loop_exited"
             ELSE "raised"
    /\ escaped' = exc
    /\ UNCHANGED success

\* push_to_tidbyt once create_webp has returned w, up to requests.post
PushAfterWebp(w) ==
    /\ webp_data' = w
    /\ IF NotWebpData(w)
       THEN /\ UNCHANGED <<push_req, sent>>
            /\ LoopAfterPush(FALSE)
       ELSE /\ push_req' = PushRequest(w, device_id.v, api_key.v)
            /\ sent' = Append(sent, TIDBYT_API_URL(device_id.v))
            /\ pc' = "pushing"
            /\ UNCHANGED <<success, escaped>>

\* create_webp once get_bitcoin_price has returned p, up to requests.post
WebpAfterPrice(p) ==
    /\ price' = p
    /\ IF PriceIsNone(p)
       THEN /\ UNCHANGED render_req
            /\ PushAfterWebp(None)
       ELSE IF IntRaises(p) # NoExc
       THEN /\ UNCHANGED <<render_req, webp_data, push_req, sent>>
            /\ LoopExcept(IntRaises(p))
       ELSE /\ render_req' = RenderCode(p)
            /\ sent' = Append(sent, RENDER_URL)
            /\ pc' = "rendering"
            /\ UNCHANGED <<webp_data, push_req, success, escaped>>

\* requests.get of get_bitcoin_price has answered ev (or raised it)
AfterPriceCall(ev) ==
    LET r == FetchPrice(ev, last_price, last_update, now)
    IN  /\ last_price' = r.last_price
        /\ last_update' = r.last_update
        /\ price_resp' = ev
        /\ UNCHANGED <<now, render_resp, push_resp>>
        /\ IF r.raised # NoExc
           THEN /\ gbp' = gbp
                /\ UNCHANGED <<price, render_req, webp_data, push_req, sent>>
                /\ LoopExcept(r.raised)
           ELSE /\ gbp' = [gbp EXCEPT !.returned = TRUE, !.ret = r.ret]
                /\ WebpAfterPrice(r.ret)

\* requests.post of create_webp has answered ev (or raised it)
AfterRenderCall(ev) ==
    LET r == RenderImage(ev)
    IN  /\ render_resp' = ev
        /\ UNCHANGED <<last_price, last_update, now, gbp, price_resp, price,
                       render_req, push_resp>>
        /\ IF r.raised # NoExc
           THEN /\ UNCHANGED <<webp_data, push_req, sent>>
                /\ LoopExcept(r.raised)
           ELSE PushAfterWebp(r.ret)

\* requests.post of push_to_tidbyt has answered ev (or raised it)
AfterPushCall(ev) ==
    LET r == PushImage(ev)
    IN  /\ push_resp' = ev
        /\ UNCHANGED <<last_price, last_update, now, gbp, price_resp, price,
                       render_req, render_resp, webp_data, push_req, sent>>
        /\ IF r.raised # NoExc
           THEN LoopExcept(r.raised)
           ELSE LoopAfterPush(r.ret)

-----------------------------------------------------------------------------
(* Actions *)

trackerVars == <<device_id, api_key, update_interval>>

iterVars == <<last_price, last_update, now, gbp, price_resp, price, render_req, render_resp,
              webp_data, push_req, push_resp, sent, success, escaped>>

LoopStates == {"loop_top", "fetching", "rendering", "pushing", "sleeping"}

\* main: read the configuration; on success create the tracker and enter
\* run_continuous_updates with its default interval
Main(cfg) ==
    /\ pc = "start"
    /\ config' = cfg
    /\ IF LoadConfigRaises(cfg) # NoExc
       THEN /\ pc' = IF MainExcept(LoadConfigRaises(cfg)) THEN "main_returned"
                     ELSE "main_raised"
            /\ UNCHANGED trackerVars
       ELSE /\ device_id' = Str(cfg.device_id)
            /\ api_key' = Str(cfg.api_key)
            /\ update_interval' = DefaultUpdateInterval
            /\ pc' = "loop_top"
    /\ UNCHANGED <<clock, interrupted>>
    /\ UNCHANGED iterVars

\* a caller other than main: TidbytBitcoinTracker(d, k).run_continuous_updates(i)
RunContinuousUpdates(d, k, i) ==
    /\ pc = "start"
    /\ device_id' = Str(d)
    /\ api_key' = Str(k)
    /\ update_interval' = i
    /\ pc' = "loop_top"
    /\ UNCHANGED <<config, clock, interrupted>>
    /\ UNCHANGED iterVars

\* the loop calls push_to_tidbyt, which calls create_webp, which calls
\* get_bitcoin_price: up to the first request that is sent
PushToTidbyt ==
    /\ pc = "loop_top"
    /\ now' = clock
    /\ gbp' = CallOf(clock, last_price, last_update,
                     CacheValid(last_price, last_update, clock))
    /\ IF CacheValid(last_price, last_update, clock)
       THEN WebpAfterPrice(last_price)
       ELSE /\ sent' = Append(sent, COINDESK_PRICE_URL)
            /\ pc' = "fetching"
            /\ UNCHANGED <<price, render_req, webp_data, push_req, success, escaped>>
    /\ UNCHANGED <<last_price, last_update, price_resp, render_resp, push_resp>>
    /\ UNCHANGED <<config, clock, interrupted>>
    /\ UNCHANGED trackerVars

\* the price API answers after d seconds
PriceResponse(ev, d) ==
    /\ pc = "fetching"
    /\ clock + d <= MaxClock
    /\ clock' = clock + d
    /\ AfterPriceCall(ev)
    /\ UNCHANGED <<config, interrupted>>
    /\ UNCHANGED trackerVars

\* the render endpoint answers after d seconds
RenderResponse(ev, d) ==
    /\ pc = "rendering"
    /\ clock + d <= MaxClock
    /\ clock' = clock + d
    /\ AfterRenderCall(ev)
    /\ UNCHANGED <<config, interrupted>>
    /\ UNCHANGED trackerVars

\* the push endpoint answers after d seconds
PushResponse(ev, d) ==
    /\ pc = "pushing"
    /\ clock + d <= MaxClock
    /\ clock' = clock + d
    /\ AfterPushCall(ev)
    /\ UNCHANGED <<config, interrupted>>
    /\ UNCHANGED trackerVars

\* time.sleep(update_interval) returns, d seconds late; the next iteration
\* starts with nothing sent
SleepReturns(d) ==
    /\ pc = "sleeping"
    /\ clock + update_interval + d <= MaxClock
    /\ clock' = clock + update_interval + d
    /\ pc' = "loop_top"
    /\ price' = None
    /\ webp_data' = None
    /\ sent' = << >>
    /\ render_req' = None
    /\ push_req' = NoRequest
    /\ gbp' = NoCall
    /\ price_resp' = NoEvent
    /\ render_resp' = NoEvent
    /\ push_resp' = NoEvent
    /\ UNCHANGED <<last_price, last_update, now, success, escaped>>
    /\ UNCHANGED <<config, interrupted>>
    /\ UNCHANGED trackerVars

\* Ctrl-C: KeyboardInterrupt is raised where the thread is
Interrupt ==
    /\ pc \in LoopStates
    /\ interrupted' = TRUE
    /\ CASE pc = "fetching" -> AfterPriceCall(KeyboardInterrupt)
         [] pc = "rendering" -> AfterRenderCall(KeyboardInterrupt)
         [] pc = "pushing" -> AfterPushCall(KeyboardInterrupt)
         [] OTHER ->
              /\ LoopExcept("KeyboardInterrupt")
              /\ UNCHANGED <<last_price, last_update, now, gbp, price_resp, price,
                             render_req, render_resp, webp_data, push_req,
                             push_resp, sent>>
    /\ UNCHANGED <<config, clock>>
    /\ UNCHANGED trackerVars

Next ==
    \/ \E cfg \in ConfigFiles : Main(cfg)
    \/ \E i \in UpdateIntervals : RunContinuousUpdates("dev-api", "key-api", i)
    \/ PushToTidbyt
    \/ \E ev \in PriceEvents, d \in Delays : PriceResponse(ev, d)
    \/ \E ev \in RenderEvents, d \in Delays : RenderResponse(ev, d)
    \/ \E ev \in PushEvents, d \in Delays : PushResponse(ev, d)
    \/ \E d \in Delays : SleepReturns(d)
    \/ Interrupt

Spec == Init /\ [][Next]_vars

\* each blocking call of the loop, whatever it answers and however long it takes
PriceAnswers == \E ev \in PriceEvents, d \in Delays : PriceResponse(ev, d)

RenderAnswers == \E ev \in RenderEvents, d \in Delays : RenderResponse(ev, d)

PushAnswers == \E ev \in PushEvents, d \in Delays : PushResponse(ev, d)

Sleeps == \E d \in Delays : SleepReturns(d)

\* the thread keeps running, and every network call and every sleep returns
FairSpec ==
    /\ Spec
    /\ WF_vars(PushToTidbyt)
    /\ WF_vars(PriceAnswers)
    /\ WF_vars(RenderAnswers)
    /\ WF_vars(PushAnswers)
    /\ WF_vars(Sleeps)

-----------------------------------------------------------------------------
(* Vocabulary of the properties *)

Same(a, b) == a.t = b.t /\ a.v = b.v

Requested(url) == \E i \in 1..Len(sent) : sent[i] = url

\* a request went to the push endpoint of some device
PushRequested ==
    \E i \in 1..Len(sent) : sent[i] \notin {COINDESK_PRICE_URL, RENDER_URL}

\* at the get_bitcoin_price call of this iteration a price was cached and
\* younger than cache_ttl
CachedAndFresh ==
    /\ gbp.pre_price.t # "None"
    /\ gbp.pre_update.t # "None"
    /\ gbp.now - gbp.pre_update.v < cache_ttl

\* the rate a 200 answer of the price API carried, None if it carried none
FetchedRate ==
    IF price_resp.k = "http" /\ price_resp.status = 200 /\ price_resp.body.v.j = "rate"
    THEN price_resp.body.v.rate
    ELSE None

\* the loop is over: run_continuous_updates has returned
LoopEnded == pc \in {"stopped", "loop_exited", "raised"}

-----------------------------------------------------------------------------
(* C1..C3: the price cache *)

\* C1: a get_bitcoin_price call made while a price is cached and younger than
\* cache_ttl returns the cached price, sends nothing to the price API and
\* leaves last_price and last_update as they were.
C1_CacheHitReturnsCached ==
    (gbp.called /\ CachedAndFresh) =>
        /\ gbp.returned
        /\ Same(gbp.ret, gbp.pre_price)
        /\ ~Requested(COINDESK_PRICE_URL)
        /\ price_resp = NoEvent
        /\ Same(last_price, gbp.pre_price)
        /\ Same(last_update, gbp.pre_update)

C1_Witness ==
    /\ gbp.called
    /\ CachedAndFresh
    /\ gbp.hit
    /\ gbp.ret.t = "float"
    /\ pc = "rendering"

\* C2: a get_bitcoin_price call made with no price cached, or with a cached
\* price of age cache_ttl or more, sends a request to the price API; what it
\* returns is None or the rate of that answer, never the cache's content.
C2_StaleCacheFetches ==
    (gbp.called /\ ~CachedAndFresh) =>
        /\ ~gbp.hit
        /\ Requested(COINDESK_PRICE_URL)
        /\ gbp.returned => (gbp.ret.t = "None" \/ Same(gbp.ret, FetchedRate))

\* the boundary: the cached price is exactly cache_ttl old
C2_Witness ==
    /\ gbp.called
    /\ gbp.pre_price.t = "float"
    /\ gbp.pre_update.t # "None"
    /\ gbp.now - gbp.pre_update.v = cache_ttl
    /\ Requested(COINDESK_PRICE_URL)
    /\ gbp.returned
    /\ gbp.ret.t = "float"

\* C3 (as claimed): whenever get_bitcoin_price returns None, last_price and
\* last_update are what they were before the call.
C3_FailedFetchLeavesCache ==
    (gbp.called /\ gbp.returned /\ gbp.ret.t = "None") =>
        /\ Same(last_price, gbp.pre_price)
        /\ Same(last_update, gbp.pre_update)

-----------------------------------------------------------------------------
(* C4..C6: what an iteration sends *)

\* the fetch of this iteration was made and failed
FetchFailed == gbp.called /\ ~gbp.hit /\ gbp.returned /\ gbp.ret.t = "None"

\* the render request of this iteration got a status other than 200 or a
\* transport failure
RenderFailed ==
    \/ render_resp.k = "http" /\ render_resp.status # 200
    \/ render_resp.k = "raise" /\ render_resp.exc \in ExceptionSubclasses

\* push_to_tidbyt returned False and the loop went on to time.sleep (where an
\* interrupt may since have stopped it)
ReturnedFalseAndSleeps ==
    /\ success.t = "bool"
    /\ success.v = FALSE
    /\ pc = "sleeping" \/ (pc = "stopped" /\ interrupted)

\* C4: when the cache was invalid and the fetch failed, the iteration sends
\* nothing to the render endpoint and nothing to the push endpoint;
\* push_to_tidbyt returns False and the loop goes to sleep.
C4_FetchFailureSkipsRenderAndPush ==
    FetchFailed =>
        /\ ~Requested(RENDER_URL)
        /\ ~PushRequested
        /\ render_req.t = "None"
        /\ ReturnedFalseAndSleeps

C4_Witness ==
    /\ FetchFailed
    /\ price_resp.k = "http"
    /\ price_resp.status = 503
    /\ pc = "sleeping"

\* C5: when a price was obtained but the render request failed, the iteration
\* sends nothing to the push endpoint; push_to_tidbyt returns False and the
\* loop goes to sleep.
C5_RenderFailureSkipsPush ==
    (price.t # "None" /\ RenderFailed) =>
        /\ ~PushRequested
        /\ push_req.url = ""
        /\ ReturnedFalseAndSleeps

C5_Witness ==
    /\ price.t = "float"
    /\ Requested(RENDER_URL)
    /\ render_resp.k = "http"
    /\ render_resp.status = 500
    /\ pc = "sleeping"

\* the bytes a group of four base64 digits stands for
B64GroupDecode(g) ==
    LET d(i) == IF g[i] = B64Pad THEN 0 ELSE g[i]
        n == d(1) * 262144 + d(2) * 4096 + d(3) * 64 + d(4)
        b1 == n \div 65536
        b2 == (n \div 256) % 256
        b3 == n % 256
    IN  CASE g[3] = B64Pad -> <<b1>>
          [] g[4] = B64Pad -> <<b1, b2>>
          [] OTHER -> <<b1, b2, b3>>

RECURSIVE B64Decode(_)
\* the bytes a sequence of base64 digits stands for
B64Decode(cs) ==
    IF Len(cs) < 4 THEN << >>
    ELSE B64GroupDecode(SubSeq(cs, 1, 4)) \o B64Decode(SubSeq(cs, 5, Len(cs)))

\* the push endpoint was sent the base64 of the body the render endpoint
\* returned in this iteration
PushedRenderedBody ==
    /\ Requested(TIDBYT_API_URL(device_id.v))
    /\ push_req.url = TIDBYT_API_URL(device_id.v)
    /\ Len(push_req.json.image) % 4 = 0
    /\ B64Decode(push_req.json.image) = render_resp.body.v

RenderAnswered200 == render_resp.k = "http" /\ render_resp.status = 200

\* C6 (as claimed): whenever the render endpoint answers 200, whatever the
\* body, the push endpoint is called in that iteration with the base64 of
\* that body.
C6_Render200AlwaysPushed == RenderAnswered200 => PushedRenderedBody

\* C6 (amended): whenever the render endpoint answers 200 with a body that is
\* not empty, the push endpoint is called in that iteration with the base64
\* of that body; on an empty body nothing is sent to the push endpoint and
\* push_to_tidbyt returns False.
C6_NonEmptyRenderPushed ==
    RenderAnswered200 =>
        IF Len(render_resp.body.v) > 0
        THEN PushedRenderedBody
        ELSE ~PushRequested /\ push_req.url = "" /\ ReturnedFalseAndSleeps

C6_Witness ==
    /\ RenderAnswered200
    /\ Len(render_resp.body.v) = 4
    /\ PushedRenderedBody
    /\ Len(push_req.json.image) = 8
    /\ pc = "pushing"

-----------------------------------------------------------------------------
(* C7..C9: how the loop ends *)

\* C7 (as claimed): the loop is left only through an external interrupt,
\* whatever the fetch, render and push results are.
C7_LoopLeftOnlyByInterrupt == LoopEnded => interrupted

\* C8 (as claimed): an exception raised in an iteration outside the per-step
\* handlers is swallowed and the loop goes on to the next sleep.
C8_UnexpectedExceptionSwallowed ==
    escaped \in ExceptionSubclasses => pc \in LoopStates

\* C9: a KeyboardInterrupt delivered in any state of the loop stops it; no
\* `except Exception` handler takes it, and from then on nothing is sent and
\* no sleep is started.
C9_InterruptStops ==
    /\ [](interrupted => (pc = "stopped" /\ escaped = "KeyboardInterrupt"))
    /\ [][(interrupted' /\ ~interrupted) => sent' = sent]_vars
    /\ [][pc = "stopped" => (pc' = "stopped" /\ sent' = sent)]_vars

\* interrupted while the price request was in flight
C9_Witness ==
    /\ interrupted
    /\ pc = "stopped"
    /\ Requested(COINDESK_PRICE_URL)
    /\ ~gbp.returned

-----------------------------------------------------------------------------
(* C10: start-up *)

ConfigUnusable ==
    \/ config.file = "missing"
    \/ config.file = "json" /\ (~config.has_device_id \/ ~config.has_api_key)

\* C10: with the config file missing or lacking device_id or api_key, main
\* returns before a tracker exists: the loop is never entered and nothing is
\* ever sent to the price, render or push endpoint.
C10_BadConfigAborts ==
    ConfigUnusable =>
        /\ pc = "main_returned"
        /\ device_id.t = "None"
        /\ api_key.t = "None"
        /\ sent = << >>
        /\ ~gbp.called

C10_Witness ==
    /\ config.file = "json"
    /\ config.has_device_id
    /\ ~config.has_api_key
    /\ pc = "main_returned"

-----------------------------------------------------------------------------
(* C11..C13: the values that flow through an iteration *)

\* C11 (as claimed): whenever a price is cached, it is a number greater
\* than 0, whatever the price API answered.
C11_CachedPricePositive ==
    last_price.t # "None" =>
        /\ last_price.t \in {"float", "int"}
        /\ last_price.v > 0

\* k is the integer part of the float of v tenths: no further from zero than
\* the float, and less than 1 away from it
IntegerPartOf(k, v) ==
    IF v >= 0
    THEN 10 * k <= v /\ v < 10 * k + 10
    ELSE 10 * k >= v /\ v > 10 * k - 10

\* C12: the text of the render payload is "$" and the price of the iteration
\* cut to its integer part, never rounded: 42999.9 gives 42999, 100.0 gives
\* 100.
C12_LabelIsTruncatedPrice ==
    Requested(RENDER_URL) =>
        /\ render_req.text[1] = "$"
        /\ price.t = "float" => IntegerPartOf(render_req.text[2], price.v)
        /\ price.t = "int" => render_req.text[2] = price.v
        /\ Same(price, Float(429999)) => render_req.text[2] = 42999
        /\ Same(price, Float(1000)) => render_req.text[2] = 100

C12_Witness ==
    /\ Requested(RENDER_URL)
    /\ Same(price, Float(429999))
    /\ render_req.text = <<"$", 42999>>

\* the device id and the API key the tracker was configured with
ConfiguredDeviceId == IF config.file = "json" THEN config.device_id ELSE "dev-api"

ConfiguredApiKey == IF config.file = "json" THEN config.api_key ELSE "key-api"

\* C13: within one iteration the price in the render payload is the one
\* get_bitcoin_price returned, and the push request carries the base64 of
\* the bytes the render endpoint returned, installation_id "bitcoin-tracker"
\* and background true, to the push URL of the configured device with the
\* configured API key as bearer token.
C13_EndToEndDataFlow ==
    /\ Requested(RENDER_URL) =>
          /\ gbp.returned
          /\ Same(price, gbp.ret)
          /\ render_req.text = <<"$", IntOf(gbp.ret)>>
    /\ PushRequested =>
          /\ Requested(RENDER_URL)
          /\ render_resp.k = "http"
          /\ render_resp.status = 200
          /\ B64Decode(push_req.json.image) = render_resp.body.v
          /\ push_req.json.installation_id = "bitcoin-tracker"
          /\ push_req.json.background = TRUE
          /\ push_req.url =
                "https://api.tidbyt.com/v0/devices/" \o ConfiguredDeviceId \o "/push"
          /\ sent[Len(sent)] = push_req.url
          /\ push_req.headers.Authorization = <<"Bearer", ConfiguredApiKey>>
          /\ push_req.headers.ContentType = "application/json"

\* a fetched 67890 is rendered, and the rendered bytes are pushed for the
\* device of tidbyt_config.json
C13_Witness ==
    /\ config.file = "json"
    /\ PushRequested
    /\ Same(gbp.ret, PyInt(67890))
    /\ render_req.text = <<"$", 67890>>
    /\ render_resp.body.v = <<82, 73>>
    /\ push_req.json.image = <<20, 36, 36, B64Pad>>
    /\ push_req.url = "https://api.tidbyt.com/v0/devices/dev-main/push"
    /\ push_req.headers.Authorization = <<"Bearer", "key-main">>

-----------------------------------------------------------------------------
(* C14..C16: the rhythm of the loop *)

InIteration == pc \in {"loop_top", "fetching", "rendering", "pushing"}

\* C14 (as claimed): with no interrupt and every call returning, every
\* iteration, whatever its outcome, reaches the sleep, and every sleep (that
\* ends within the time explored) is followed by a new iteration.
C14_EveryIterationSleepsAndRetries ==
    /\ InIteration ~> (pc = "sleeping" \/ interrupted)
    /\ (pc = "sleeping" /\ clock + update_interval <= MaxClock)
          ~> (pc = "loop_top" \/ interrupted)

\* place of an endpoint in the order price, render, push
Rank(url) ==
    CASE url = COINDESK_PRICE_URL -> 1
      [] url = RENDER_URL -> 2
      [] OTHER -> 3

\* sent' is sent, or sent with one more request
GrowsByAtMostOne ==
    \/ sent' = sent
    \/ /\ Len(sent') = Len(sent) + 1
       /\ SubSeq(sent', 1, Len(sent)) = sent

\* C15: between two sleeps the loop sends at most one request to each of the
\* price, render and push endpoints, in that order; a render request only
\* after a price was obtained in the iteration, a push request only after the
\* render request of the iteration returned; and a new iteration starts only
\* from a sleep that lasted update_interval (or from the start of the loop).
C15_OneOrderedPassPerSleep ==
    /\ [](\A i, j \in 1..Len(sent) : i < j => Rank(sent[i]) < Rank(sent[j]))
    /\ [](Requested(RENDER_URL) => (gbp.returned /\ gbp.ret.t # "None"))
    /\ [](PushRequested =>
             (Requested(RENDER_URL) /\ render_resp.k = "http" /\ webp_data.t = "bytes"))
    /\ [][pc # "sleeping" => GrowsByAtMostOne]_vars
    /\ [][(pc' = "loop_top" /\ pc # "loop_top") =>
             \/ pc = "start"
             \/ pc = "sleeping" /\ clock' >= clock + update_interval /\ sent' = << >>]_vars
    /\ [][(pc = "sleeping" /\ pc' # "sleeping") => pc' \in {"loop_top", "stopped"}]_vars

\* a full pass: price, render and push were requested, once each, and the
\* loop sleeps
C15_Witness ==
    /\ pc = "sleeping"
    /\ clock >= update_interval
    /\ update_interval > 0
    /\ sent = <<COINDESK_PRICE_URL, RENDER_URL, TIDBYT_API_URL(device_id.v)>>

\* C16: with the default interval of 300 seconds and the TTL of 240 seconds
\* no get_bitcoin_price call of the loop takes the cached price: each finds
\* the cache empty or expired and asks the price API.
C16_DefaultIntervalNeverHitsCache ==
    (update_interval = DefaultUpdateInterval /\ gbp.called) =>
        /\ ~gbp.hit
        /\ Requested(COINDESK_PRICE_URL)
        /\ gbp.pre_update.t # "None" => gbp.now - gbp.pre_update.v >= cache_ttl

\* a later iteration: a price is cached, too old, and fetched again
C16_Witness ==
    /\ update_interval = DefaultUpdateInterval
    /\ gbp.called
    /\ gbp.pre_price.t = "float"
    /\ gbp.now - gbp.pre_update.v = DefaultUpdateInterval
    /\ Requested(COINDESK_PRICE_URL)
    /\ pc = "fetching"

-----------------------------------------------------------------------------
(* C17, C18: the cache over time *)

\* C17: a price in a render payload was fetched in the same iteration or was
\* cached and younger than cache_ttl when the cache was read; when the cache
\* has expired and the fetch fails, the expired price is not rendered.
C17_NoStalePriceRendered ==
    /\ Requested(RENDER_URL) =>
          \/ /\ gbp.hit
             /\ CachedAndFresh
             /\ Same(price, gbp.pre_price)
          \/ /\ ~gbp.hit
             /\ Requested(COINDESK_PRICE_URL)
             /\ price_resp.k = "http"
             /\ price_resp.status = 200
             /\ Same(price, FetchedRate)
    /\ (FetchFailed /\ gbp.pre_price.t # "None") =>
          /\ ~Requested(RENDER_URL)
          /\ price.t = "None"

\* an expired price is cached, the fetch fails with 503, nothing is rendered
C17_Witness ==
    /\ FetchFailed
    /\ gbp.pre_price.t = "float"
    /\ gbp.now - gbp.pre_update.v >= cache_ttl
    /\ price_resp.status = 503
    /\ ~Requested(RENDER_URL)
    /\ pc = "sleeping"

\* C18 (as claimed): last_price is None exactly when last_update is None;
\* once set the cache is never cleared; a fetch that returns a price writes
\* that price and the `now` of its call together; last_update never decreases.
C18_CachePairing ==
    /\ []((last_price.t = "None") <=> (last_update.t = "None"))
    /\ [][last_price.t # "None" => last_price'.t # "None"]_vars
    /\ [][last_update.t # "None" =>
             (last_update'.t # "None" /\ last_update'.v >= last_update.v)]_vars
    /\ [][(gbp.called /\ ~gbp.hit /\ ~gbp.returned /\ gbp'.returned
              /\ gbp'.ret.t # "None") =>
             (Same(last_price', gbp'.ret) /\ Same(last_update', DateTime(gbp.now)))]_vars

====
